---- MODULE Spec2Model ----
(***************************************************************************)
(* Model of the real-time delivery subsystem of the Laplace Python SDK:    *)
(*   - the SSE Streaming-Channel (LivePriceStream / BidAskStream,          *)
(*     src/src/laplace/live_price.py), and                                 *)
(*   - the WebSocket Push-Client (LivePriceWebSocketClient,                *)
(*     src/src/laplace/websocket.py).                                      *)
(* Coroutines are cooperative: a step of the model is the code that runs   *)
(* between two suspension points (await) of one coroutine.                 *)
(***************************************************************************)
EXTENDS Integers, Sequences, FiniteSets, TLC

\* ------------------------------------------------------------------ bounds
\* subscribe() calls that start a reader task, over one run
MaxTasks == 3
\* lines one connection reads before the model stops feeding it
MaxLines == 2

\* ------------------------------------------------------- Streaming-Channel
VARIABLES
    cfg,        \* the stream object's class, region and type (fixed at construction)
    task,       \* self._task: 0 (None) or the id of the task created last
    queue,      \* self._queue: 0 (None) or the id of the queue created last
    is_closed,  \* self._is_closed
    symbols,    \* self._symbols
    tasks,      \* every asyncio.Task created by subscribe(): its position and flags
    queues,     \* every asyncio.Queue created by subscribe(): its content
    callers,    \* the coroutines calling subscribe()/close(): where each is suspended
    consumer    \* the coroutine iterating receive(), with the Result it yielded last

svars == <<cfg, task, queue, is_closed, symbols, tasks, queues, callers, consumer>>

\* ------------------------------------------------------------- Push-Client
VARIABLES
    client,               \* constructor arguments: external_user_id, feeds, options
    loop,                 \* self._loop is set (FALSE: None)
    websocket,            \* self._websocket: 0 (None) or the id of the WebSocketApp created last
    connection_thread,    \* self._connection_thread and the socket of the app it runs
    subscription_counter, \* self._subscription_counter
    subscriptions,        \* self._subscriptions, by subscription id
    symbol_last_data,     \* self._symbol_last_data, by symbol
    ws_is_closed,         \* self._is_closed of the client
    closed_reason,        \* self._closed_reason
    reconnect_count,      \* self._reconnect_count
    scheduled,            \* coroutines handed to the loop by run_coroutine_threadsafe, in order
    connecting,           \* connect() is suspended in `await self._get_websocket_url()`
    closures,             \* ids whose subscribe() returned its unsubscribe closure
    sent,                 \* history: outbound messages the last operation wrote to the socket
    calls,                \* history: handler invocations made by the last operation
    raised,               \* history: the exception that left the last operation, or None
    env                   \* history: WebSocketApps created, opens and frames of the transport

pvars == <<client, loop, websocket, connection_thread, subscription_counter, subscriptions,
           symbol_last_data, ws_is_closed, closed_reason, reconnect_count, scheduled,
           connecting, closures, sent, calls, raised, env>>

vars == <<svars, pvars>>

None == "None"
NoData == [kind |-> None]

\* LivePriceType and Region values; BidAskStream has neither (it is fixed to BIST bid/ask)
PRICE == "price"
DELAYED_PRICE == "delayed-price"
ORDER_BOOK == "order-book"
TR == "tr"
US == "us"

StreamConfigs ==
    { [class |-> "LivePriceStream", region |-> US, type |-> PRICE],
      [class |-> "LivePriceStream", region |-> TR, type |-> PRICE],
      [class |-> "LivePriceStream", region |-> US, type |-> ORDER_BOOK],
      [class |-> "BidAskStream", region |-> TR, type |-> "bids"] }

SymbolLists == { <<"AAPL">>, <<"MSFT">> }

\* ---------------------------------------------------------------- wire lines
\* A line of the response is its prefix and the text after it; the text is either
\* no JSON at all or the JSON object it denotes (a function from keys to values).
\* dicts names the keys of the object whose value is itself an object.
InvalidJson == [json |-> "invalid"]
JsonText(obj, dicts) == [json |-> "object", obj |-> obj, dicts |-> dicts]

usTick == [s |-> "AAPL", p |-> 150, d |-> 1700000000]
usTickT == [s |-> "AAPL", p |-> 150, t |-> 1700000000]
trMessage == [data |-> [s |-> "THYAO", ch |-> 2, p |-> 10, d |-> 1700000000],
              symbol |-> "THYAO", type |-> "pr"]
bidAskNested == [d |-> [s |-> "THYAO", d |-> 1700000000, ask |-> 11, bid |-> 10]]

Lines ==
    { [prefix |-> "event:", text |-> InvalidJson],
      [prefix |-> "data:", text |-> InvalidJson],
      [prefix |-> "data:", text |-> JsonText(usTick, {})],
      [prefix |-> "data:", text |-> JsonText(usTickT, {})],
      [prefix |-> "data:", text |-> JsonText(trMessage, {"data"})],
      [prefix |-> "data:", text |-> JsonText(bidAskNested, {"d"})] }

Has(obj, keys) == keys \subseteq DOMAIN obj

\* pydantic validation of each payload model: the required (aliased) keys must be
\* present; the result carries the canonical field names. Raise marks an exception.
Raise == [kind |-> "Raise"]

USStockLiveData(d) ==
    IF Has(d, {"s", "p", "d"})
    THEN [kind |-> "USStockLiveData", symbol |-> d.s, price |-> d.p, date |-> d.d]
    ELSE Raise

BISTStockLiveData(d) ==
    IF Has(d, {"s", "ch", "p", "d"})
    THEN [kind |-> "BISTStockLiveData", symbol |-> d.s, daily_percent_change |-> d.ch,
          close_price |-> d.p, date |-> d.d]
    ELSE Raise

MessageTypes == {"pr", "state_change", "heartbeat", "ob"}

LiveMessageV2(d) ==
    IF Has(d, {"data", "symbol", "type"})
    THEN IF d.type \in MessageTypes /\ BISTStockLiveData(d.data) # Raise
         THEN [kind |-> "LiveMessageV2", data |-> BISTStockLiveData(d.data),
               symbol |-> d.symbol, type |-> d.type]
         ELSE Raise
    ELSE Raise

BISTStockOrderBookData(d) ==
    IF Has(d, {"updated", "deleted", "s"})
    THEN [kind |-> "BISTStockOrderBookData", symbol |-> d.s,
          updated |-> d.updated, deleted |-> d.deleted]
    ELSE Raise

BISTBidAskData(d) ==
    IF Has(d, {"s", "d", "ask", "bid"})
    THEN [kind |-> "BISTBidAskData", symbol |-> d.s, date |-> d.d, ask |-> d.ask, bid |-> d.bid]
    ELSE Raise

\* `raise ValueError(f"Unsupported region: ...")`
ValueError == [kind |-> "ValueError"]

\* LivePriceStream._create_model_from_data / BidAskStream._create_model_from_data
\* (d: the parsed object, dicts: its keys that hold a dict)
CreateModelFromData(c, d, dicts) ==
    IF c.class = "BidAskStream"
    THEN IF "d" \in DOMAIN d /\ "d" \in dicts
         THEN BISTBidAskData(d.d)
         ELSE BISTBidAskData(d)
    ELSE IF c.region = TR /\ c.type = PRICE THEN LiveMessageV2(d)
    ELSE IF c.region = TR /\ c.type = DELAYED_PRICE THEN LiveMessageV2(d)
    ELSE IF c.region = US /\ c.type = PRICE THEN USStockLiveData(d)
    ELSE IF c.region = TR /\ c.type = ORDER_BOOK THEN BISTStockOrderBookData(d)
    ELSE ValueError

\* The Result one line yields: LivePriceResult(data=...) or, when json.loads or the
\* model raises, the error Result of _put_error. src (the reader task) is history.
\* mutant: a data Result that also carries an error text
DataResultWithError(payload, t) == [data |-> payload, error |-> "", src |-> t]

DataResult(payload, t) == [data |-> payload, error |-> None, src |-> t]
ErrorResult(msg, t) == [data |-> NoData, error |-> msg, src |-> t]

LineResult(c, line, t) ==
    IF line.text.json = "invalid"
    THEN ErrorResult("Error processing data", t)
    ELSE IF CreateModelFromData(c, line.text.obj, line.text.dicts) \in {Raise, ValueError}
         THEN ErrorResult("Error processing data", t)
         ELSE DataResult(CreateModelFromData(c, line.text.obj, line.text.dicts), t)

\* ------------------------------------------------------------ stream state
TaskIds == 1..MaxTasks
CallerIds == {1, 2}

\* st: where the task is suspended; cancel: cancel() was called on it; lines: lines
\* read; pending: the exception propagating through the context managers; conn: the
\* symbols of its URL. History: fail (how the attempt failed), exit (how the task
\* ended) and out (what it has enqueued so far, see Out).
NoTask == [st |-> "absent", cancel |-> FALSE, lines |-> 0, pending |-> None,
           fail |-> None, exit |-> None, out |-> "none", conn |-> <<>>]
DoneTask(t) == [NoTask EXCEPT !.st = "done", !.exit = tasks[t].exit]
\* rx (history): a receive() sequence was running when the pending subscribe() was called
IdleCaller == [pc |-> "idle", arg |-> <<>>, awaiting |-> 0, rx |-> FALSE]
Receiving == consumer.pc \in {"waiting", "got", "yielded"}
NoItem == [data |-> NoData, error |-> None, src |-> 0]
IdleConsumer == [pc |-> "idle", q |-> 0, item |-> NoItem, pull |-> 0, cur |-> 0]

\* a task that has been created and has not finished
Live(t) == tasks[t].st \in {"created", "connecting", "streaming", "closing"}
LiveTasks == {t \in TaskIds : Live(t)}
Created == {t \in TaskIds : tasks[t].st # "absent"}
Pending == {c \in CallerIds : callers[c].pc = "sub_wait"}

\* LivePriceStream.__init__ / BidAskStream.__init__
StreamInit ==
    /\ cfg \in StreamConfigs
    /\ task = 0
    /\ queue = 0
    /\ is_closed = FALSE
    /\ symbols = <<>>
    /\ tasks = [t \in TaskIds |-> NoTask]
    /\ queues = [t \in TaskIds |-> <<>>]
    /\ callers = [c \in CallerIds |-> IdleCaller]
    /\ consumer = IdleConsumer

\* mutant: subscribe()/close() that never cancel the running task
NeedsCleanupNever == FALSE

\* `if self._task and not self._task.done()` of _cleanup_existing_stream
NeedsCleanup == task # 0 /\ tasks[task].st # "done"

\* A queue is reachable from self._queue and from the get() a consumer is suspended
\* in; a finished task from self._task and from the callers awaiting it. What is
\* unreachable is garbage: its content is dropped.
Awaited(q) == consumer.pc = "waiting" /\ consumer.q = q

\* mutant: subscribe() that keeps the queue of the previous subscription
KeepQueue(n) == IF queue = 0 THEN n ELSE queue

\* `self._queue = asyncio.Queue()`: a queue of its own for every subscribe()
NewQueue(n) == n

\* the tail of subscribe(): new symbols, a new queue, the flag cleared, a new task
StartStream(S) ==
    LET n == Cardinality(Created) + 1 IN
    /\ symbols' = S
    /\ queue' = NewQueue(n)
    /\ is_closed' = FALSE
    /\ task' = n
    /\ tasks' = [t \in TaskIds |->
                    IF t = n THEN [NoTask EXCEPT !.st = "created"]
                    ELSE IF tasks[t].st = "done" THEN DoneTask(t)
                    ELSE tasks[t]]
    /\ queues' = [q \in TaskIds |->
                     IF q # NewQueue(n) /\ ~Awaited(q) THEN <<>> ELSE queues[q]]

\* subscribe(symbols), up to its first suspension: with a live task it cancels the
\* task and awaits it; with none it runs to its end at once.
Subscribe(c, S) ==
    /\ callers[c].pc = "idle"
    /\ Cardinality(Created) + Cardinality(Pending) < MaxTasks
    /\ IF NeedsCleanup
       THEN /\ tasks' = [tasks EXCEPT ![task].cancel = TRUE]
            /\ callers' = [callers EXCEPT ![c] = [pc |-> "sub_wait", arg |-> S,
                                                  awaiting |-> task, rx |-> Receiving]]
            /\ UNCHANGED <<task, queue, is_closed, symbols, queues>>
       ELSE /\ StartStream(S)
            /\ UNCHANGED callers
    /\ UNCHANGED <<pvars, cfg, consumer>>

\* subscribe() resumed by the end of the task it awaited
SubscribeResume(c) ==
    /\ callers[c].pc = "sub_wait"
    /\ tasks[callers[c].awaiting].st = "done"
    /\ StartStream(callers[c].arg)
    /\ callers' = [callers EXCEPT ![c] = IdleCaller]
    /\ UNCHANGED <<pvars, cfg, consumer>>

\* close(), up to its first suspension
Close(c) ==
    /\ callers[c].pc = "idle"
    /\ IF is_closed
       THEN UNCHANGED <<is_closed, tasks, callers>>
       ELSE /\ is_closed' = TRUE
            /\ IF NeedsCleanup
               THEN /\ tasks' = [tasks EXCEPT ![task].cancel = TRUE]
                    /\ callers' = [callers EXCEPT ![c] =
                                      [pc |-> "close_wait", arg |-> <<>>,
                                       awaiting |-> task, rx |-> FALSE]]
               ELSE UNCHANGED <<tasks, callers>>
    /\ UNCHANGED <<pvars, cfg, task, queue, symbols, queues, consumer>>

\* close() resumed by the end of the task it awaited
CloseResume(c) ==
    /\ callers[c].pc = "close_wait"
    /\ tasks[callers[c].awaiting].st = "done"
    /\ callers' = [callers EXCEPT ![c] = IdleCaller]
    /\ UNCHANGED <<pvars, cfg, task, queue, is_closed, symbols, tasks, queues, consumer>>

\* `await self._queue.put(result)`: the queue is unbounded, put never suspends;
\* self._queue is read when the put runs.
Put(r) == queues' = [queues EXCEPT ![queue] = Append(@, r)]

\* history of what a task has enqueued: "none", "data" (data Results only), "error"
\* (one error Result, and it is the last Result), "more" (anything after an error)
Out(prev, r) ==
    IF prev \in {"none", "data"}
    THEN IF r.error # None THEN "error" ELSE "data"
    ELSE "more"

\* ------------------------------------------------------ _start_streaming
\* first step of the task: a task cancelled before it ever ran ends without
\* entering the coroutine; otherwise the URL is built and the request is sent.
TaskStart(t) ==
    /\ tasks[t].st = "created"
    /\ IF tasks[t].cancel
       THEN tasks' = [tasks EXCEPT ![t].st = "done", ![t].exit = "cancelled"]
       ELSE tasks' = [tasks EXCEPT ![t].st = "connecting", ![t].conn = symbols]
    /\ UNCHANGED <<pvars, cfg, task, queue, is_closed, symbols, queues, callers, consumer>>

\* the response (or the failure to get one) arrives
TaskConnect(t) ==
    /\ tasks[t].st = "connecting"
    /\ ~tasks[t].cancel
    /\ \/ /\ tasks' = [tasks EXCEPT ![t].st = "streaming"]
          /\ UNCHANGED queues
       \/ \* status_code != 200: aread, _put_error, return
          /\ Put(ErrorResult("Stream failed", t))
          /\ tasks' = [tasks EXCEPT ![t].st = "closing", ![t].fail = "status",
                                    ![t].out = Out(@, ErrorResult("Stream failed", t))]
       \/ \* httpx.TimeoutException / ConnectError: caught once the context managers exit
          /\ tasks' = [tasks EXCEPT ![t].st = "closing", ![t].fail = "network",
                                    ![t].pending = "Connection error"]
          /\ UNCHANGED queues
    /\ UNCHANGED <<pvars, cfg, task, queue, is_closed, symbols, callers, consumer>>

\* mutant: a reader that goes on to the next line after an error
ProcessLineNeverStops(r) == FALSE

\* `break  # Stop processing on errors` after _put_error in _process_stream_lines
ProcessLineStops(r) == r.error # None

\* _process_stream_lines: one line of the response
TaskReadLine(t) ==
    /\ tasks[t].st = "streaming"
    /\ ~tasks[t].cancel
    /\ tasks[t].lines < MaxLines
    /\ \E line \in Lines :
         IF is_closed
         THEN /\ tasks' = [tasks EXCEPT ![t].st = "closing"]
              /\ UNCHANGED queues
         ELSE IF line.prefix # "data:"
         THEN /\ tasks' = [tasks EXCEPT ![t].lines = @ + 1]
              /\ UNCHANGED queues
         ELSE /\ Put(LineResult(cfg, line, t))
              /\ tasks' = [tasks EXCEPT
                    ![t].st = IF ProcessLineStops(LineResult(cfg, line, t))
                              THEN "closing" ELSE "streaming",
                    ![t].lines = @ + 1,
                    ![t].fail = IF LineResult(cfg, line, t).error = None THEN @
                                ELSE IF line.text.json = "object"
                                        /\ CreateModelFromData(cfg, line.text.obj,
                                                               line.text.dicts) = ValueError
                                THEN "unsupported" ELSE "decode",
                    ![t].out = Out(@, LineResult(cfg, line, t))]
    /\ UNCHANGED <<pvars, cfg, task, queue, is_closed, symbols, callers, consumer>>

\* the response ends, or reading it fails
TaskStreamEnd(t) ==
    /\ tasks[t].st = "streaming"
    /\ ~tasks[t].cancel
    /\ \/ tasks' = [tasks EXCEPT ![t].st = "closing"]
       \/ tasks' = [tasks EXCEPT ![t].st = "closing", ![t].fail = "network",
                                 ![t].pending = "Streaming error"]
    /\ UNCHANGED <<pvars, cfg, task, queue, is_closed, symbols, queues, callers, consumer>>

\* CancelledError is thrown into the task where it is suspended
TaskCancelled(t) ==
    /\ tasks[t].st \in {"connecting", "streaming"}
    /\ tasks[t].cancel
    /\ tasks' = [tasks EXCEPT ![t].st = "closing", ![t].exit = "cancelled"]
    /\ UNCHANGED <<pvars, cfg, task, queue, is_closed, symbols, queues, callers, consumer>>

\* mutant: a task that leaves the flag as it is when it exits
ClosedAtExitUnset == is_closed

\* `finally: self._is_closed = True` of _start_streaming
ClosedAtExit == TRUE

\* the context managers have exited: the except clause of a pending exception
\* (_put_error), then `finally: self._is_closed = True`. A cancellation that lands
\* while the context managers exit replaces the pending exception.
TaskFinish(t) ==
    /\ tasks[t].st = "closing"
    /\ IF tasks[t].pending # None /\ ~tasks[t].cancel
       THEN /\ Put(ErrorResult(tasks[t].pending, t))
            /\ tasks' = [tasks EXCEPT ![t].st = "done", ![t].exit = "returned",
                                      ![t].pending = None, ![t].lines = 0,
                                      ![t].out = Out(@, ErrorResult(tasks[t].pending, t))]
       ELSE /\ UNCHANGED queues
            /\ tasks' = [tasks EXCEPT ![t].st = "done", ![t].pending = None, ![t].lines = 0,
                                      ![t].exit = IF tasks[t].cancel \/ @ = "cancelled"
                                                  THEN "cancelled" ELSE "returned"]
    /\ is_closed' = ClosedAtExit
    /\ UNCHANGED <<pvars, cfg, task, queue, symbols, callers, consumer>>

\* ------------------------------------------------------------- receive()
\* mutant: a pull loop that does not look at the flag
LoopForever == TRUE

\* `while not self._is_closed`
LoopContinues == ~is_closed

\* the loop test `while not self._is_closed`, then
\* `asyncio.wait_for(self._queue.get(), timeout=1.0)` on the queue that
\* self._queue names now; out of the loop the sequence ends
LoopTop ==
    IF LoopContinues
    THEN [IdleConsumer EXCEPT !.pc = "waiting", !.q = queue, !.pull = task]
    ELSE [IdleConsumer EXCEPT !.pc = "ended", !.q = queue]

\* receive() is called and pulled for the first time:
\* `if not self._queue: raise RuntimeError`
ReceiveBegin ==
    /\ consumer.pc \in {"idle", "ended"}
    /\ consumer' = IF queue = 0 THEN [IdleConsumer EXCEPT !.pc = "raised"] ELSE LoopTop
    /\ UNCHANGED <<pvars, cfg, task, queue, is_closed, symbols, tasks, queues, callers>>

\* get() completes: the head of the awaited queue is taken for the waiting consumer
ReceiveGet ==
    /\ consumer.pc = "waiting"
    /\ queues[consumer.q] # <<>>
    /\ consumer' = [consumer EXCEPT !.pc = "got", !.item = Head(queues[consumer.q])]
    /\ queues' = [queues EXCEPT ![consumer.q] = IF consumer.q = queue THEN Tail(@) ELSE <<>>]
    /\ UNCHANGED <<pvars, cfg, task, queue, is_closed, symbols, tasks, callers>>

\* the consumer coroutine resumes with the item: `yield result`
ReceiveYield ==
    /\ consumer.pc = "got"
    /\ consumer' = [consumer EXCEPT !.pc = "yielded", !.cur = task]
    /\ UNCHANGED <<pvars, cfg, task, queue, is_closed, symbols, tasks, queues, callers>>

\* asyncio.TimeoutError: `continue`
ReceiveTimeout ==
    /\ consumer.pc = "waiting"
    /\ queues[consumer.q] = <<>>
    /\ consumer' = LoopTop
    /\ UNCHANGED <<pvars, cfg, task, queue, is_closed, symbols, tasks, queues, callers>>

\* the consumer asks for the next item: the generator resumes after its yield
ReceiveNext ==
    /\ consumer.pc = "yielded"
    /\ consumer' = LoopTop
    /\ UNCHANGED <<pvars, cfg, task, queue, is_closed, symbols, tasks, queues, callers>>

\* ============================================================== Push-Client
\* subscribe() calls over one run
MaxSubs == 2
\* frames the transport delivers over one run
MaxFrames == 2
\* times the transport opens a socket over one run
MaxOpens == 2
\* connect() calls over one run
MaxConnects == 2
\* closes counted by _on_close before the model stops counting
MaxReconnectCount == 3
\* coroutines waiting for the loop at one time
MaxScheduled == 2

\* LivePriceFeed
LIVE_BIST == "live_price_tr"
LIVE_US == "live_price_us"
DELAYED_BIST == "delayed_price_tr"
DEPTH_BIST == "depth_tr"
LivePriceFeeds == {LIVE_BIST, LIVE_US, DELAYED_BIST, DEPTH_BIST}

\* WebSocketCloseReason values the client assigns
NORMAL_CLOSURE == "NORMAL_CLOSURE"
MAX_RECONNECT_EXCEEDED == "MAX_RECONNECT_EXCEEDED"

\* a client constructed with WebsocketOptions(reconnect_attempts=2), and two whose
\* connect() is rejected
DefaultClient == [external_user_id |-> "user-1", feeds |-> <<LIVE_US, LIVE_BIST>>,
                  reconnect_attempts |-> 2]
Clients ==
    { DefaultClient,
      [DefaultClient EXCEPT !.external_user_id = ""],
      [DefaultClient EXCEPT !.feeds = <<>>] }

PushSymbols == {"AAPL", "THYAO"}
PushSymbolLists == { <<"AAPL">>, <<"THYAO">>, <<"AAPL", "THYAO">> }
SubscribeFeeds == {LIVE_US, LIVE_BIST}
\* a handler is a callable that returns or one that raises
Handlers == {"returns", "raises"}

\* --------------------------------------------------------------- frames
DataFrame(feed, m) ==
    [json |-> "object", obj |-> [type |-> "data", feed |-> feed, message |-> m]]

Frames ==
    { InvalidJson,
      DataFrame(LIVE_US, [s |-> "AAPL", p |-> 150, t |-> 1700000000]),
      DataFrame(LIVE_BIST, [symbol |-> "AAPL", cl |-> 10, c |-> 2, d |-> 1700000000]),
      DataFrame(LIVE_BIST, [symbol |-> "THYAO", cl |-> 10, c |-> 2, d |-> 1700000000]),
      DataFrame(LIVE_US, [s |-> "", p |-> 150, t |-> 1700000000]),
      [json |-> "object", obj |-> [type |-> "data", feed |-> LIVE_US]],
      DataFrame("news", [s |-> "AAPL", p |-> 150, t |-> 1700000000]),
      DataFrame(DEPTH_BIST, [s |-> "THYAO", updated |-> <<>>, deleted |-> <<>>]),
      DataFrame(LIVE_US, [s |-> "AAPL"]),
      [json |-> "object", obj |-> [type |-> "heartbeat", feed |-> LIVE_US]],
      [json |-> "object", obj |-> [type |-> "tick", feed |-> LIVE_US]] }

\* The payload models as _handle_message constructs them: by keyword, from
\* message_data.get(...). A key that is missing gives None, which no field accepts.
BISTStockLiveDataByName(m) ==
    IF Has(m, {"symbol", "cl", "c", "d"})
    THEN [kind |-> "BISTStockLiveData", symbol |-> m.symbol, daily_percent_change |-> m.c,
          close_price |-> m.cl, date |-> m.d]
    ELSE Raise

USStockLiveDataByName(m) ==
    IF Has(m, {"s", "p", "t"})
    THEN [kind |-> "USStockLiveData", symbol |-> m.s, price |-> m.p, date |-> m.t]
    ELSE Raise

\* BISTStockOrderBookData is built with symbol=, updated=, deleted=; the model has no
\* populate_by_name, so it takes each field under its alias only (s, updated, deleted)
BISTStockOrderBookDataByName(m) ==
    LET passed == {"symbol", "updated", "deleted"}
        accepted == {"s", "updated", "deleted"}
    IN IF accepted \subseteq passed /\ Has(m, {"s", "updated", "deleted"})
       THEN [kind |-> "BISTStockOrderBookData", symbol |-> m.s,
             updated |-> m.updated, deleted |-> m.deleted]
       ELSE Raise

FeedPayload(feed, m) ==
    IF feed \in {DELAYED_BIST, LIVE_BIST} THEN BISTStockLiveDataByName(m)
    ELSE IF feed = LIVE_US THEN USStockLiveDataByName(m)
    ELSE BISTStockOrderBookDataByName(m)

\* _handle_message up to `if price_data.symbol:`: the payload a frame is dispatched
\* with, NoData for a frame that is logged and dropped
PriceData(frame) ==
    IF frame.json = "invalid" THEN NoData
    ELSE IF ~Has(frame.obj, {"feed"}) THEN NoData
    ELSE IF frame.obj.feed \notin LivePriceFeeds THEN NoData
    ELSE IF ~Has(frame.obj, {"type"}) THEN NoData
    ELSE IF frame.obj.type # "data" THEN NoData
    ELSE IF ~Has(frame.obj, {"message"}) THEN NoData
    ELSE IF FeedPayload(frame.obj.feed, frame.obj.message) = Raise THEN NoData
    ELSE IF FeedPayload(frame.obj.feed, frame.obj.message).symbol = "" THEN NoData
    ELSE FeedPayload(frame.obj.feed, frame.obj.message)

\* ------------------------------------------------------------ client state
SubIds == 0..(MaxSubs - 1)
NoSub == [symbols |-> <<>>, feed |-> None, handler |-> None]
NoThread == [alive |-> FALSE, app |-> 0, open |-> FALSE]
Range(seq) == {seq[i] : i \in DOMAIN seq}
Registered(subs, id) == subs[id].feed # None

\* a coroutine submitted to the loop; history: the opens the transport had reported
\* when it was submitted
Coroutine(op, syms, feed, frame) ==
    [op |-> op, symbols |-> syms, feed |-> feed, frame |-> frame, opens |-> env.opens]
\* an outbound message
Message(type, syms, feed) == [type |-> type, symbols |-> syms, feed |-> feed]

\* LivePriceWebSocketClient.__init__
PushInit ==
    /\ client \in Clients
    /\ loop = FALSE
    /\ websocket = 0
    /\ connection_thread = NoThread
    /\ subscription_counter = 0
    /\ subscriptions = [i \in SubIds |-> NoSub]
    /\ symbol_last_data = [s \in PushSymbols |-> NoData]
    /\ ws_is_closed = FALSE
    /\ closed_reason = None
    /\ reconnect_count = 0
    /\ scheduled = <<>>
    /\ connecting = FALSE
    /\ closures = {}
    /\ sent = <<>>
    /\ calls = <<>>
    /\ raised = None
    /\ env = [apps |-> 0, opens |-> 0, frames |-> 0]

\* mutant: handlers matched by symbol alone
RECURSIVE HandlersFromAnyFeed(_, _, _, _)
HandlersFromAnyFeed(subs, symbol, feed, id) ==
    IF id \notin SubIds THEN <<>>
    ELSE (IF Registered(subs, id) /\ symbol \in Range(subs[id].symbols)
          THEN <<id>> ELSE <<>>)
         \o HandlersFromAnyFeed(subs, symbol, feed, id + 1)

RECURSIVE HandlersFrom(_, _, _, _)
HandlersFrom(subs, symbol, feed, id) ==
    IF id \notin SubIds THEN <<>>
    ELSE (IF Registered(subs, id) /\ symbol \in Range(subs[id].symbols)
             /\ subs[id].feed = feed
          THEN <<id>> ELSE <<>>)
         \o HandlersFrom(subs, symbol, feed, id + 1)

\* mutant: the handlers of a pair, latest registration first
GetHandlersLatestFirst(subs, symbol, feed) ==
    [k \in 1..Len(HandlersFrom(subs, symbol, feed, 0)) |->
        HandlersFrom(subs, symbol, feed, 0)[Len(HandlersFrom(subs, symbol, feed, 0)) + 1 - k]]

\* _get_handlers_for_symbol: the dict is walked in insertion order, which is the
\* order of the ids; a handler is named by the id of its subscription
GetHandlersForSymbol(subs, symbol, feed) == HandlersFrom(subs, symbol, feed, 0)

\* `for handler in handlers: handler(price_data)`: the invocations made; an
\* exception of a handler leaves the loop
RECURSIVE InvokeHandlers(_, _, _)
InvokeHandlers(subs, ids, data) ==
    IF ids = <<>> THEN <<>>
    ELSE <<[sub |-> Head(ids), data |-> data]>>
         \o (IF subs[Head(ids)].handler = "raises" THEN <<>>
             ELSE InvokeHandlers(subs, Tail(ids), data))

\* the `for symbol in symbols` loop of subscribe(): the symbols to add, the
\* replays made to the new handler, and whether a replay raised
RECURSIVE ScanSymbols(_, _, _, _, _)
ScanSymbols(subs, syms, id, cache, acc) ==
    IF syms = <<>> THEN acc
    ELSE IF Len(GetHandlersForSymbol(subs, Head(syms), subs[id].feed)) = 1
    THEN ScanSymbols(subs, Tail(syms), id, cache, [acc EXCEPT !.add = Append(@, Head(syms))])
    ELSE IF Len(GetHandlersForSymbol(subs, Head(syms), subs[id].feed)) > 1
            /\ cache[Head(syms)] # NoData
    THEN IF subs[id].handler = "raises"
         THEN [acc EXCEPT !.calls = Append(@, [sub |-> id, data |-> cache[Head(syms)]]),
                          !.raised = TRUE]
         ELSE ScanSymbols(subs, Tail(syms), id, cache,
                  [acc EXCEPT !.calls = Append(@, [sub |-> id, data |-> cache[Head(syms)]])])
    ELSE ScanSymbols(subs, Tail(syms), id, cache, acc)

\* mutant: a hand-off that submits nothing
ScheduleNothing(co) == UNCHANGED scheduled

\* mutant: a loop that runs the coroutine submitted last first
ScheduleFirst(co) ==
    /\ Len(scheduled) < MaxScheduled
    /\ scheduled' = IF loop THEN <<co>> \o scheduled ELSE scheduled

\* run_coroutine_threadsafe(..., self._loop), guarded by `if self._loop`
Schedule(co) ==
    /\ Len(scheduled) < MaxScheduled
    /\ scheduled' = IF loop THEN Append(scheduled, co) ELSE scheduled

\* subscribe(symbols, feed, handler)
ClientSubscribe(S, feed, h) ==
    /\ subscription_counter < MaxSubs
    /\ LET id == subscription_counter
           subs == [subscriptions EXCEPT ![id] = [symbols |-> S, feed |-> feed, handler |-> h]]
           r == ScanSymbols(subs, S, id, symbol_last_data,
                            [add |-> <<>>, calls |-> <<>>, raised |-> FALSE])
       IN /\ subscription_counter' = id + 1
          /\ subscriptions' = subs
          /\ calls' = r.calls
          /\ raised' = IF r.raised THEN "Exception" ELSE None
          /\ IF r.raised
             THEN UNCHANGED <<scheduled, closures>>
             ELSE /\ IF r.add # <<>>
                     THEN Schedule(Coroutine("add", r.add, feed, InvalidJson))
                     ELSE UNCHANGED scheduled
                  /\ closures' = closures \cup {id}
    /\ sent' = <<>>
    /\ UNCHANGED <<svars, client, loop, websocket, connection_thread, symbol_last_data,
                   ws_is_closed, closed_reason, reconnect_count, connecting, env>>

\* the unsubscribe closure that subscribe() returned
Unsubscribe(id) ==
    /\ id \in closures
    /\ calls' = <<>>
    /\ raised' = None
    /\ IF Registered(subscriptions, id)
       THEN LET subs == [subscriptions EXCEPT ![id] = NoSub]
                gone == SelectSeq(subscriptions[id].symbols,
                           LAMBDA s : GetHandlersForSymbol(subs, s, subscriptions[id].feed) = <<>>)
            IN /\ subscriptions' = subs
               /\ IF gone # <<>>
                  THEN Schedule(Coroutine("remove", gone, subscriptions[id].feed, InvalidJson))
                  ELSE UNCHANGED scheduled
       ELSE UNCHANGED <<subscriptions, scheduled>>
    /\ sent' = <<>>
    /\ UNCHANGED <<svars, client, loop, websocket, connection_thread, subscription_counter,
                   symbol_last_data, ws_is_closed, closed_reason, reconnect_count,
                   connecting, closures, env>>

\* ----------------------------------------------------------------- connect
\* `self._websocket = WebSocketApp(...)`, and a transport thread for it unless the
\* thread of an earlier connect() is still alive
CreateWebSocketApp ==
    /\ websocket' = env.apps + 1
    /\ env' = [env EXCEPT !.apps = @ + 1]
    /\ connection_thread' = IF connection_thread.alive THEN connection_thread
                            ELSE [alive |-> TRUE, app |-> env.apps + 1, open |-> FALSE]

\* mutant: a connect() that checks nothing
NothingMissing(c) == FALSE

\* `if not self.external_user_id or not self.feeds`
MissingArguments(c) == c.external_user_id = "" \/ c.feeds = <<>>

\* connect(url), up to its suspension: the arguments are checked, the loop is stored;
\* with a url it runs to its end, without one it awaits _get_websocket_url()
Connect(url) ==
    /\ ~connecting
    /\ env.apps < MaxConnects
    /\ IF MissingArguments(client)
       THEN /\ raised' = "WebSocketError"
            /\ UNCHANGED <<loop, websocket, connection_thread, connecting, env>>
       ELSE /\ raised' = None
            /\ loop' = TRUE
            /\ IF url
               THEN CreateWebSocketApp /\ UNCHANGED connecting
               ELSE connecting' = TRUE /\ UNCHANGED <<websocket, connection_thread, env>>
    /\ calls' = <<>>
    /\ sent' = <<>>
    /\ UNCHANGED <<svars, client, subscription_counter, subscriptions, symbol_last_data,
                   ws_is_closed, closed_reason, reconnect_count, scheduled, closures>>

\* connect() resumed: the url was fetched, or the request raised
ConnectResume(ok) ==
    /\ connecting
    /\ connecting' = FALSE
    /\ IF ok THEN CreateWebSocketApp ELSE UNCHANGED <<websocket, connection_thread, env>>
    /\ raised' = IF ok THEN None ELSE "Exception"
    /\ calls' = <<>>
    /\ sent' = <<>>
    /\ UNCHANGED <<svars, client, loop, subscription_counter, subscriptions, symbol_last_data,
                   ws_is_closed, closed_reason, reconnect_count, scheduled, closures>>

\* --------------------------------------------------------- transport thread
\* _on_open, on the transport thread
OnOpen ==
    /\ connection_thread.alive
    /\ ~connection_thread.open
    /\ env.opens < MaxOpens
    /\ connection_thread' = [connection_thread EXCEPT !.open = TRUE]
    /\ env' = [env EXCEPT !.opens = @ + 1]
    /\ reconnect_count' = 0
    /\ Schedule(Coroutine("resubscribe", <<>>, None, InvalidJson))
    /\ sent' = <<>>
    /\ raised' = None
    /\ UNCHANGED <<svars, client, loop, websocket, subscription_counter, subscriptions,
                   symbol_last_data, ws_is_closed, closed_reason, connecting, closures, calls>>

\* _on_message, on the transport thread
OnMessage(frame) ==
    /\ connection_thread.alive
    /\ connection_thread.open
    /\ env.frames < MaxFrames
    /\ env' = [env EXCEPT !.frames = @ + 1]
    /\ Schedule(Coroutine("handle", <<>>, None, frame))
    /\ sent' = <<>>
    /\ raised' = None
    /\ UNCHANGED <<svars, client, loop, websocket, connection_thread, subscription_counter,
                   subscriptions, symbol_last_data, ws_is_closed, closed_reason,
                   reconnect_count, connecting, closures, calls>>

\* _on_close, on the transport thread: the socket was lost or could not be opened;
\* run_forever then tries again or returns
OnClose(retry) ==
    /\ connection_thread.alive
    /\ reconnect_count < MaxReconnectCount
    /\ connection_thread' = [connection_thread EXCEPT !.open = FALSE, !.alive = retry]
    /\ IF ~ws_is_closed
       THEN /\ reconnect_count' = reconnect_count + 1
            /\ closed_reason' = IF reconnect_count + 1 >= client.reconnect_attempts
                                THEN MAX_RECONNECT_EXCEEDED ELSE closed_reason
       ELSE UNCHANGED <<reconnect_count, closed_reason>>
    /\ sent' = <<>>
    /\ raised' = None
    /\ UNCHANGED <<svars, client, loop, websocket, subscription_counter, subscriptions,
                   symbol_last_data, ws_is_closed, scheduled, connecting, closures, calls, env>>

\* ----------------------------------------------- coroutines run by the loop
\* the socket of self._websocket is connected
Connected ==
    /\ connection_thread.alive
    /\ connection_thread.open
    /\ connection_thread.app = websocket

\* `self._websocket.send(...)` of _add_symbols / _remove_symbols, for each message:
\* nothing without symbols or without a WebSocketApp; on a socket that is not
\* connected send raises WebSocketConnectionClosedException, which is logged
Send(msgs) ==
    sent' = IF websocket # 0 /\ Connected
            THEN SelectSeq(msgs, LAMBDA m : m.symbols # <<>>)
            ELSE <<>>

\* mutant: a _handle_message without its `except Exception`
HandleMessageUncaught ==
    /\ scheduled # <<>>
    /\ Head(scheduled).op = "handle"
    /\ scheduled' = Tail(scheduled)
    /\ LET price_data == PriceData(Head(scheduled).frame) IN
       IF price_data # NoData
       THEN /\ symbol_last_data' = [symbol_last_data EXCEPT ![price_data.symbol] = price_data]
            /\ calls' = InvokeHandlers(subscriptions,
                            GetHandlersForSymbol(subscriptions, price_data.symbol,
                                                 Head(scheduled).frame.obj.feed),
                            price_data)
       ELSE /\ calls' = <<>>
            /\ UNCHANGED symbol_last_data
    /\ sent' = <<>>
    /\ raised' = IF \E k \in DOMAIN calls' : subscriptions[calls'[k].sub].handler = "raises"
                 THEN "Exception" ELSE None
    /\ UNCHANGED <<svars, client, loop, websocket, connection_thread, subscription_counter,
                   subscriptions, ws_is_closed, closed_reason, reconnect_count,
                   connecting, closures, env>>

\* _handle_message
HandleMessage ==
    /\ scheduled # <<>>
    /\ Head(scheduled).op = "handle"
    /\ scheduled' = Tail(scheduled)
    /\ LET price_data == PriceData(Head(scheduled).frame) IN
       IF price_data # NoData
       THEN /\ symbol_last_data' = [symbol_last_data EXCEPT ![price_data.symbol] = price_data]
            /\ calls' = InvokeHandlers(subscriptions,
                            GetHandlersForSymbol(subscriptions, price_data.symbol,
                                                 Head(scheduled).frame.obj.feed),
                            price_data)
       ELSE /\ calls' = <<>>
            /\ UNCHANGED symbol_last_data
    /\ sent' = <<>>
    /\ raised' = None
    /\ UNCHANGED <<svars, client, loop, websocket, connection_thread, subscription_counter,
                   subscriptions, ws_is_closed, closed_reason, reconnect_count,
                   connecting, closures, env>>

\* _add_symbols
AddSymbols ==
    /\ scheduled # <<>>
    /\ Head(scheduled).op = "add"
    /\ scheduled' = Tail(scheduled)
    /\ Send(<<Message("subscribe", Head(scheduled).symbols, Head(scheduled).feed)>>)
    /\ calls' = <<>>
    /\ raised' = None
    /\ UNCHANGED <<svars, client, loop, websocket, connection_thread, subscription_counter,
                   subscriptions, symbol_last_data, ws_is_closed, closed_reason,
                   reconnect_count, connecting, closures, env>>

\* _remove_symbols
RemoveSymbols ==
    /\ scheduled # <<>>
    /\ Head(scheduled).op = "remove"
    /\ scheduled' = Tail(scheduled)
    /\ Send(<<Message("unsubscribe", Head(scheduled).symbols, Head(scheduled).feed)>>)
    /\ calls' = <<>>
    /\ raised' = None
    /\ UNCHANGED <<svars, client, loop, websocket, connection_thread, subscription_counter,
                   subscriptions, symbol_last_data, ws_is_closed, closed_reason,
                   reconnect_count, connecting, closures, env>>

AppendNew(seq, x) == IF x \in Range(seq) THEN seq ELSE Append(seq, x)

\* the feeds of the subscriptions, in the order the dict first shows each
RECURSIVE FeedsFrom(_, _, _)
FeedsFrom(subs, id, acc) ==
    IF id \notin SubIds THEN acc
    ELSE FeedsFrom(subs, id + 1,
                   IF Registered(subs, id) THEN AppendNew(acc, subs[id].feed) ELSE acc)

RECURSIVE AppendAllNew(_, _)
AppendAllNew(seq, xs) ==
    IF xs = <<>> THEN seq ELSE AppendAllNew(AppendNew(seq, Head(xs)), Tail(xs))

\* the symbols of a feed's subscriptions, each once, in the order first met
RECURSIVE SymbolsFrom(_, _, _, _)
SymbolsFrom(subs, feed, id, acc) ==
    IF id \notin SubIds THEN acc
    ELSE SymbolsFrom(subs, feed, id + 1,
                     IF Registered(subs, id) /\ subs[id].feed = feed
                     THEN AppendAllNew(acc, subs[id].symbols) ELSE acc)

\* symbols_by_feed of _resubscribe_all, as the messages it sends
SymbolsByFeed(subs) ==
    [k \in 1..Len(FeedsFrom(subs, 0, <<>>)) |->
        Message("subscribe", SymbolsFrom(subs, FeedsFrom(subs, 0, <<>>)[k], 0, <<>>),
                FeedsFrom(subs, 0, <<>>)[k])]

\* _resubscribe_all (its awaits of _add_symbols never suspend)
ResubscribeAll ==
    /\ scheduled # <<>>
    /\ Head(scheduled).op = "resubscribe"
    /\ scheduled' = Tail(scheduled)
    /\ Send(SymbolsByFeed(subscriptions))
    /\ calls' = <<>>
    /\ raised' = None
    /\ UNCHANGED <<svars, client, loop, websocket, connection_thread, subscription_counter,
                   subscriptions, symbol_last_data, ws_is_closed, closed_reason,
                   reconnect_count, connecting, closures, env>>

\* mutant: a close() without its `finally`
CloseWithoutFinally(fails) ==
    /\ fails => websocket # 0
    /\ subscriptions' = [i \in SubIds |-> NoSub]
    /\ closed_reason' = NORMAL_CLOSURE
    /\ ws_is_closed' = TRUE
    /\ connection_thread' = IF ~fails /\ websocket # 0 /\ connection_thread.alive
                               /\ connection_thread.app = websocket
                            THEN [connection_thread EXCEPT !.alive = FALSE, !.open = FALSE]
                            ELSE connection_thread
    /\ websocket' = IF fails THEN websocket ELSE 0
    /\ raised' = IF fails THEN "WebSocketError" ELSE None
    /\ calls' = <<>>
    /\ sent' = <<>>
    /\ UNCHANGED <<svars, client, loop, subscription_counter, symbol_last_data,
                   reconnect_count, scheduled, connecting, closures, env>>

\* close(): the subscriptions are cleared, the reason and the flag set, the
\* WebSocketApp closed and the thread joined; `finally: self._websocket = None`.
\* Closing the app the thread runs ends run_forever; its _on_close finds the flag set.
\* When `self._websocket.close()` raises (fails), the thread is not joined and
\* WebSocketError leaves close(), after the `finally`.
ClientClose(fails) ==
    /\ fails => websocket # 0
    /\ subscriptions' = [i \in SubIds |-> NoSub]
    /\ closed_reason' = NORMAL_CLOSURE
    /\ ws_is_closed' = TRUE
    /\ connection_thread' = IF ~fails /\ websocket # 0 /\ connection_thread.alive
                               /\ connection_thread.app = websocket
                            THEN [connection_thread EXCEPT !.alive = FALSE, !.open = FALSE]
                            ELSE connection_thread
    /\ websocket' = 0
    /\ raised' = IF fails THEN "WebSocketError" ELSE None
    /\ calls' = <<>>
    /\ sent' = <<>>
    /\ UNCHANGED <<svars, client, loop, subscription_counter, symbol_last_data,
                   reconnect_count, scheduled, connecting, closures, env>>

\* the loop thread and the transport thread of a client that is not closed:
\* subscriptions come and go, the client connects, frames arrive and are dispatched
PushNext ==
    \/ \E S \in PushSymbolLists, feed \in SubscribeFeeds, h \in Handlers :
          ClientSubscribe(S, feed, h)
    \/ \E id \in SubIds : Unsubscribe(id)
    \/ \E url \in BOOLEAN : Connect(url)
    \/ \E ok \in BOOLEAN : ConnectResume(ok)
    \/ OnOpen
    \/ \E frame \in Frames : OnMessage(frame)
    \/ HandleMessage
    \/ AddSymbols
    \/ RemoveSymbols
    \/ ResubscribeAll

\* the life cycle of the connection, with one kind of subscription and of frame:
\* the socket is lost and reopened, the client is closed
LifecycleNext ==
    \/ ClientSubscribe(<<"AAPL">>, LIVE_US, "returns")
    \/ \E id \in SubIds : Unsubscribe(id)
    \/ \E url \in BOOLEAN : Connect(url)
    \/ \E ok \in BOOLEAN : ConnectResume(ok)
    \/ OnOpen
    \/ OnMessage(DataFrame(LIVE_US, [s |-> "AAPL", p |-> 150, t |-> 1700000000]))
    \/ \E retry \in BOOLEAN : OnClose(retry)
    \/ HandleMessage
    \/ AddSymbols
    \/ RemoveSymbols
    \/ ResubscribeAll
    \/ \E fails \in BOOLEAN : ClientClose(fails)

\* the socket is lost and reopened under subscriptions of every kind whose handler
\* returns; no frame arrives and the client is not closed
ReopenNext ==
    \/ \E S \in PushSymbolLists, feed \in SubscribeFeeds : ClientSubscribe(S, feed, "returns")
    \/ \E id \in SubIds : Unsubscribe(id)
    \/ \E url \in BOOLEAN : Connect(url)
    \/ \E ok \in BOOLEAN : ConnectResume(ok)
    \/ OnOpen
    \/ \E retry \in BOOLEAN : OnClose(retry)
    \/ AddSymbols
    \/ RemoveSymbols
    \/ ResubscribeAll

\* a data frame of each feed, with every field _handle_message reads for that feed
FeedFrames ==
    { DataFrame(LIVE_US, [s |-> "AAPL", p |-> 150, t |-> 1700000000]),
      DataFrame(LIVE_BIST, [symbol |-> "THYAO", cl |-> 10, c |-> 2, d |-> 1700000000]),
      DataFrame(DELAYED_BIST, [symbol |-> "THYAO", cl |-> 11, c |-> 3, d |-> 1700000000]),
      DataFrame(DEPTH_BIST, [s |-> "THYAO", updated |-> <<>>, deleted |-> <<>>]) }

\* one symbol list is subscribed on any of the four feeds and a data frame of any
\* feed arrives on the open socket
FeedsNext ==
    \/ \E S \in {<<"AAPL">>, <<"THYAO">>}, feed \in LivePriceFeeds :
          ClientSubscribe(S, feed, "returns")
    \/ Connect(TRUE)
    \/ OnOpen
    \/ \E frame \in FeedFrames : OnMessage(frame)
    \/ HandleMessage
    \/ AddSymbols
    \/ ResubscribeAll

\* the stream object of a run that exercises the Push-Client, and the client of a
\* run that exercises the Streaming-Channel
StreamIdle == StreamInit /\ cfg = [class |-> "LivePriceStream", region |-> US, type |-> PRICE]
PushIdle == PushInit /\ client = DefaultClient

ClientInit == StreamIdle /\ PushInit

SpecPush == ClientInit /\ [][PushNext]_vars

SpecLifecycle == ClientInit /\ [][LifecycleNext]_vars

SpecReopen == ClientInit /\ [][ReopenNext]_vars

SpecFeeds == ClientInit /\ [][FeedsNext]_vars

\* ------------------------------------------------------------ specifications
TaskStep ==
    \E t \in TaskIds :
        \/ TaskStart(t)
        \/ TaskConnect(t)
        \/ TaskReadLine(t)
        \/ TaskStreamEnd(t)
        \/ TaskCancelled(t)
        \/ TaskFinish(t)

ConsumerStep ==
    \/ ReceiveBegin
    \/ ReceiveGet
    \/ ReceiveYield
    \/ ReceiveTimeout
    \/ ReceiveNext

CallerStep(c) ==
    \/ \E S \in SymbolLists : Subscribe(c, S)
    \/ SubscribeResume(c)
    \/ Close(c)
    \/ CloseResume(c)

\* one coroutine calls subscribe() and close(), one after the other; another
\* iterates receive()
Next == CallerStep(1) \/ TaskStep \/ ConsumerStep

Init == StreamInit /\ PushIdle

Spec == Init /\ [][Next]_vars

\* subscribe() and close() are called from two coroutines, whose calls overlap
NextOverlap == (\E c \in CallerIds : CallerStep(c)) \/ TaskStep \/ ConsumerStep

OverlapInit == StreamIdle /\ PushIdle

SpecOverlap == OverlapInit /\ [][NextOverlap]_vars

\* a subscribe() that starts while no close() is suspended
SubscribeOutsideClose ==
    /\ callers[2].pc = "idle"
    /\ \E S \in SymbolLists : Subscribe(1, S)

\* one coroutine calls subscribe(), another calls close(); a close() may start while
\* a subscribe() is suspended, and no subscribe() starts while a close() is suspended
NextCloseOverlap ==
    \/ SubscribeOutsideClose
    \/ SubscribeResume(1)
    \/ Close(2)
    \/ CloseResume(2)
    \/ TaskStep
    \/ ConsumerStep

SpecCloseOverlap == OverlapInit /\ [][NextCloseOverlap]_vars

\* the event loop fires the timer of wait_for and resumes a coroutine whose await
\* has completed
SpecFair ==
    /\ Spec
    /\ WF_vars(ReceiveTimeout)
    /\ WF_vars(ReceiveGet)

\* ------------------------------------------------------------------ claims
\* C1: with subscribe() calls made one after the other, the task of the earlier
\* subscribe has terminated before the task of the later one is created: when a
\* task is created every other task is finished, the new task is then the only
\* live reader, and there are never two live readers.
C1_PredecessorTerminatedFirst ==
    [][ /\ Cardinality(LiveTasks') <= 1
        /\ \A t \in TaskIds :
              (tasks[t].st = "absent" /\ tasks'[t].st = "created")
              => /\ \A u \in TaskIds \ {t} : tasks[u].st \in {"absent", "done"}
                 /\ LiveTasks' = {t} ]_vars

C1_Witness ==
    /\ task = 2
    /\ Live(2)
    /\ tasks[1].st = "done"
    /\ tasks[1].exit = "cancelled"

\* C2: under any interleaving of subscribe() and close(), calls that overlap
\* included, at most one reader task is live.
C2_AtMostOneLiveReader == Cardinality(LiveTasks) <= 1

\* C3: when receive()'s sequence has ended after the reader task of the current
\* subscription returned by itself, every Result that task enqueued has been
\* yielded: none is left in the queue.
C3_EnqueuedResultsAreYielded ==
    ( /\ consumer.pc = "ended"
      /\ consumer.q = queue
      /\ tasks[task].st = "done"
      /\ tasks[task].exit = "returned" )
    => queues[queue] = <<>>

\* C4: a reader task that ends on a failure (status, network or decode error) and
\* was not cancelled has enqueued exactly one error Result, as its last Result; no
\* task enqueues anything after an error Result; the closed flag is set by the step
\* in which a task exits.
C4_FailureIsOneLastErrorResult ==
    [][ \A t \in TaskIds :
          /\ tasks'[t].out # "more"
          /\ (tasks[t].st = "closing" /\ tasks'[t].st = "done")
             => /\ is_closed'
                /\ (tasks'[t].fail # None /\ tasks'[t].exit = "returned")
                   => tasks'[t].out = "error" ]_vars

C4_Witness ==
    \E t \in TaskIds :
        /\ tasks[t].st = "done"
        /\ tasks[t].fail = "network"
        /\ tasks[t].exit = "returned"
        /\ is_closed

\* C5: once a reader has met a malformed data: line it has enqueued one error
\* Result, reads no further line, and that error Result stays the last one in the
\* channel's queue until the next subscribe().
C5_MalformedLineStopsDelivery ==
    \A t \in TaskIds :
        tasks[t].fail = "decode"
        => /\ tasks[t].out = "error"
           /\ tasks[t].st \in {"closing", "done"}
           /\ t = queue => \A i \in 1..Len(queues[t]) :
                              queues[t][i].error # None => i = Len(queues[t])

C5_Witness ==
    \E t \in TaskIds :
        /\ tasks[t].fail = "decode"
        /\ tasks[t].st = "done"
        /\ Len(queues[t]) = 2
        /\ queues[t][2].error = "Error processing data"

\* C6: a Result taken from the queue and yielded by receive() has exactly one of
\* data and error populated.
C6_DataXorError ==
    consumer.pc \in {"got", "yielded"}
    => (consumer.item.data # NoData) # (consumer.item.error # None)

C6_Witness ==
    /\ consumer.pc = "yielded"
    /\ consumer.item.error # None
    /\ consumer.item.data = NoData

\* C7: a consumer waiting in receive() on an empty queue while the closed flag is
\* set leaves the wait and the sequence ends (unless an item arrives or a
\* subscribe() reopens the channel first); the sequence ends only in a state where
\* the flag is set, and with the flag unset a timeout only leads to another wait.
C7_CloseEndsWaitingReceive ==
    /\ [][ (consumer.pc # "ended" /\ consumer'.pc = "ended") => is_closed ]_vars
    /\ [][ (consumer.pc = "waiting" /\ ~is_closed) => consumer'.pc \in {"waiting", "got"} ]_vars
    /\ ( (is_closed /\ consumer.pc = "waiting" /\ queues[consumer.q] = <<>>)
         ~> (consumer.pc \in {"ended", "got"} \/ ~is_closed) )

C7_Witness ==
    /\ consumer.pc = "ended"
    /\ consumer.q = queue
    /\ queues[queue] = <<>>
    /\ tasks[task].exit = "cancelled"
    /\ \A c \in CallerIds : callers[c].pc = "idle"

\* C8: a receive() sequence that is running when subscribe() is called does not end
\* while that call is in progress.
C8_SubscribeKeepsSequence ==
    [][ (consumer.pc # "ended" /\ consumer'.pc = "ended")
        => \A c \in Pending : ~callers[c].rx ]_vars

C11_OnlyMatchingHandlersInvoked ==
    [][ ( /\ scheduled # <<>>
          /\ Head(scheduled).op = "handle"
          /\ scheduled' = Tail(scheduled) )
        => IF PriceData(Head(scheduled).frame) = NoData
           THEN calls' = <<>>
           ELSE /\ \A k \in DOMAIN calls' :
                     /\ subscriptions[calls'[k].sub].feed = Head(scheduled).frame.obj.feed
                     /\ PriceData(Head(scheduled).frame).symbol
                           \in Range(subscriptions[calls'[k].sub].symbols)
                /\ (\A i \in SubIds :
                       \/ subscriptions[i].feed # Head(scheduled).frame.obj.feed
                       \/ PriceData(Head(scheduled).frame).symbol
                             \notin Range(subscriptions[i].symbols))
                   => calls' = <<>> ]_vars

\* a tick for AAPL on LIVE_US was delivered to the LIVE_US handler while a handler
\* for AAPL on LIVE_BIST is registered
C11_Witness ==
    /\ Len(calls) = 1
    /\ calls[1].sub = 0
    /\ calls[1].data.symbol = "AAPL"
    /\ subscriptions[0].feed = LIVE_US
    /\ subscriptions[1].feed = LIVE_BIST
    /\ "AAPL" \in Range(subscriptions[1].symbols)

\* the symbols of subscription id that no other registered subscription of its feed
\* lists, in the order of its list
OnlyCoveredBy(id) ==
    SelectSeq(subscriptions[id].symbols,
              LAMBDA s : \A j \in SubIds \ {id} :
                            \/ subscriptions[j].feed # subscriptions[id].feed
                            \/ s \notin Range(subscriptions[j].symbols))

\* C12 (as claimed): the step in which an unsubscribe closure removes its
\* subscription schedules exactly one 'unsubscribe' message, with the symbols that
\* only that subscription covered, and schedules nothing when every symbol of it is
\* still covered by another subscription.
C12_UnsubscribeSchedulesRemove ==
    [][ \A id \in SubIds :
          (subscriptions[id].feed # None /\ subscriptions'[id].feed = None)
          => scheduled' = IF OnlyCoveredBy(id) # <<>>
                          THEN Append(scheduled, Coroutine("remove", OnlyCoveredBy(id),
                                                 subscriptions[id].feed, InvalidJson))
                          ELSE scheduled ]_vars

\* C12 (amended): the same on a client whose connect() has stored the event loop;
\* on a client that has not, the closure removes the subscription and schedules
\* nothing.
C12_UnsubscribeSchedulesRemoveWithLoop ==
    [][ \A id \in SubIds :
          (subscriptions[id].feed # None /\ subscriptions'[id].feed = None)
          => scheduled' = IF loop /\ OnlyCoveredBy(id) # <<>>
                          THEN Append(scheduled, Coroutine("remove", OnlyCoveredBy(id),
                                                 subscriptions[id].feed, InvalidJson))
                          ELSE scheduled ]_vars

\* an 'unsubscribe' for AAPL is scheduled for the loop while another subscription
\* is still registered
C12_Witness ==
    /\ scheduled # <<>>
    /\ scheduled[Len(scheduled)].op = "remove"
    /\ scheduled[Len(scheduled)].symbols = <<"AAPL">>
    /\ \E i \in SubIds : subscriptions[i].feed # None

\* the symbols of the subscription that subscribe() has just registered under id
\* for which it is the first of its feed, in the order of its list
FirstCoveredBy(id) ==
    SelectSeq(subscriptions'[id].symbols,
              LAMBDA s : \A j \in SubIds \ {id} :
                            \/ subscriptions[j].feed # subscriptions'[id].feed
                            \/ s \notin Range(subscriptions[j].symbols))

\* C13: on a client whose connect() has stored the event loop, the step in which
\* subscribe() registers a subscription schedules one 'subscribe' message with
\* exactly those of its symbols for which the new handler is the first handler of
\* (symbol, feed), and schedules nothing when it has no such symbol.
C13_SubscribeSchedulesAdd ==
    [][ (loop /\ subscription_counter' = subscription_counter + 1)
        => scheduled' = IF FirstCoveredBy(subscription_counter) # <<>>
                        THEN Append(scheduled,
                                    Coroutine("add", FirstCoveredBy(subscription_counter),
                                              subscriptions'[subscription_counter].feed,
                                              InvalidJson))
                        ELSE scheduled ]_vars

\* the symbols of the subscription that subscribe() has just registered under id
\* that another subscription of its feed already lists and that have a cached value
CoveredAndCached(id) ==
    SelectSeq(subscriptions'[id].symbols,
              LAMBDA s : /\ symbol_last_data[s] # NoData
                         /\ \E j \in SubIds \ {id} :
                               /\ subscriptions[j].feed = subscriptions'[id].feed
                               /\ s \in Range(subscriptions[j].symbols))

\* C14: the step in which subscribe() registers a subscription invokes the new
\* handler, once for each of its symbols that already has a handler for the feed
\* and a cached last value, with that cached value (and invokes nothing else): the
\* replay is made inside subscribe(), from the cache, not from a frame.
C14_LateSubscriberGetsCachedValue ==
    [][ subscription_counter' = subscription_counter + 1
        => calls' = [k \in 1..Len(CoveredAndCached(subscription_counter)) |->
                        [sub |-> subscription_counter,
                         data |-> symbol_last_data[CoveredAndCached(subscription_counter)[k]]]]
      ]_vars

\* the symbols of the registered subscriptions of a feed
SymbolsOfFeed(feed) ==
    UNION { Range(subscriptions[i].symbols) : i \in {j \in SubIds : subscriptions[j].feed = feed} }

\* C15: the resubscription replay that runs while the reopened socket is open
\* sends 'subscribe' messages only, and for each feed with a registered symbol
\* exactly one, whose symbols are the symbols of all registered subscriptions of
\* that feed, each once; for a feed without one it sends none.
C15_ReplayOneMessagePerFeed ==
    [][ ( /\ scheduled # <<>>
          /\ Head(scheduled).op = "resubscribe"
          /\ scheduled' = Tail(scheduled)
          /\ connection_thread.open )
        => /\ \A k \in DOMAIN sent' : sent'[k].type = "subscribe"
           /\ \A feed \in LivePriceFeeds :
                 LET of == {k \in DOMAIN sent' : sent'[k].feed = feed}
                 IN IF SymbolsOfFeed(feed) = {}
                    THEN of = {}
                    ELSE /\ Cardinality(of) = 1
                         /\ \A k \in of :
                               /\ Range(sent'[k].symbols) = SymbolsOfFeed(feed)
                               /\ Len(sent'[k].symbols) = Cardinality(SymbolsOfFeed(feed))
      ]_vars

\* C16: once _on_close has counted reconnect_attempts closes of a client that was
\* not closed by close(), the close reason is MAX_RECONNECT_EXCEEDED; and from
\* then on no step, a transport reopen included, resets the reconnect counter.
C16_MaxReconnectKeepsCounter ==
    [][ /\ (~ws_is_closed' /\ reconnect_count' >= client.reconnect_attempts
            /\ reconnect_count' > reconnect_count)
           => closed_reason' = MAX_RECONNECT_EXCEEDED
        /\ closed_reason = MAX_RECONNECT_EXCEEDED
           => reconnect_count' >= reconnect_count ]_vars

\* C17: once the close reason is NORMAL_CLOSURE or MAX_RECONNECT_EXCEEDED no step
\* counts a further reconnect attempt and no step schedules a resubscription replay.
C17_ClosedReasonIsTerminal ==
    [][ (closed_reason = NORMAL_CLOSURE \/ closed_reason = MAX_RECONNECT_EXCEEDED)
        => /\ reconnect_count' <= reconnect_count
           /\ \/ Len(scheduled') <= Len(scheduled)
              \/ (scheduled')[Len(scheduled')].op # "resubscribe" ]_vars

\* C18: connect() on a client whose external user id is empty or whose feed list is
\* empty raises WebSocketError and changes nothing: no url is requested, no
\* WebSocketApp is created, no thread is started, no field of the client changes.
C18_ConnectWithoutArgumentsOnlyRaises ==
    [][ ( /\ (client.external_user_id = "" \/ client.feeds = <<>>)
          /\ \E url \in BOOLEAN : Connect(url) )
        => /\ raised' = "WebSocketError"
           /\ UNCHANGED <<client, loop, websocket, connection_thread, subscription_counter,
                          subscriptions, symbol_last_data, ws_is_closed, closed_reason,
                          reconnect_count, scheduled, connecting, closures, env>> ]_vars

C18_Witness ==
    /\ (client.external_user_id = "" \/ client.feeds = <<>>)
    /\ raised = "WebSocketError"
    /\ subscription_counter > 0
    /\ ~loop /\ websocket = 0 /\ ~connection_thread.alive /\ ~connecting /\ env.apps = 0

\* the table and the socket reference as close() leaves them
CleanedUp ==
    /\ subscriptions = [i \in SubIds |-> NoSub]
    /\ websocket = 0

\* C19: every close(), returning or raising WebSocketError, leaves the subscription
\* table empty and the socket reference cleared; one that returns leaves the closed
\* flag set and the reason NORMAL_CLOSURE; a close() of a client that a close() has
\* cleaned up raises nothing and changes none of these.
C19_CloseCleansUpAndIsIdempotent ==
    [][ (\E fails \in BOOLEAN : ClientClose(fails))
        => /\ CleanedUp'
           /\ raised' \in {None, "WebSocketError"}
           /\ raised' = None => (ws_is_closed' /\ closed_reason' = NORMAL_CLOSURE)
           /\ (CleanedUp /\ ws_is_closed /\ closed_reason = NORMAL_CLOSURE)
              => /\ raised' = None
                 /\ UNCHANGED <<subscriptions, websocket, ws_is_closed, closed_reason,
                                connection_thread>> ]_vars

C19_Witness ==
    /\ raised = "WebSocketError"
    /\ client = DefaultClient
    /\ CleanedUp
    /\ ws_is_closed
    /\ subscription_counter > 0
    /\ connection_thread.alive

\* C20: the step that processes an inbound frame, whatever the frame (invalid JSON,
\* unknown feed, no message, unknown type, a tick whose handler raises), lets no
\* exception out and changes neither the socket reference, the transport thread, the
\* closed flag, the close reason nor the subscription table; it leaves the frames
\* behind it queued, and a frame that carries a tick for a pair with handlers is
\* dispatched, first to the handler registered first, whatever was processed before.
C20_FrameErrorsAreSwallowed ==
    [][ ( /\ scheduled # <<>>
          /\ Head(scheduled).op = "handle"
          /\ scheduled' = Tail(scheduled) )
        => /\ raised' = None
           /\ UNCHANGED <<websocket, connection_thread, ws_is_closed, closed_reason,
                          subscriptions, loop>>
           /\ LET tick == PriceData(Head(scheduled).frame)
                  pair == {i \in SubIds :
                              /\ tick # NoData
                              /\ subscriptions[i].feed = Head(scheduled).frame.obj.feed
                              /\ tick.symbol \in Range(subscriptions[i].symbols)}
              IN pair # {} => /\ calls' # <<>>
                              /\ calls'[1].data = tick
                              /\ calls'[1].sub \in pair
                              /\ \A i \in pair : calls'[1].sub <= i ]_vars

\* a tick was dispatched to a handler that raised; the socket is still open, the
\* client not closed, and the frame that followed is next in the queue
C20_Witness ==
    /\ calls # <<>>
    /\ calls[1].sub = 0
    /\ subscriptions[0].handler = "raises"
    /\ raised = None
    /\ websocket # 0
    /\ Connected
    /\ ~ws_is_closed
    /\ scheduled # <<>>
    /\ Head(scheduled).op = "handle"
    /\ PriceData(Head(scheduled).frame) # NoData
    /\ PriceData(Head(scheduled).frame).symbol # calls[1].data.symbol

\* C21: in every reachable state get_close_reason() returns a reason exactly when
\* is_connection_closed() is true.
C21_ReasonIffClosed == (closed_reason # None) <=> ws_is_closed

\* the key under which a data frame of a feed carries its symbol
SymbolKey(feed) == IF feed \in {DELAYED_BIST, LIVE_BIST} THEN "symbol" ELSE "s"

\* the record a feed's data frames are turned into
RecordOfFeed(feed) ==
    IF feed \in {DELAYED_BIST, LIVE_BIST} THEN "BISTStockLiveData"
    ELSE IF feed = LIVE_US THEN "USStockLiveData"
    ELSE "BISTStockOrderBookData"

\* C22: a data frame with a non-empty message is dispatched to the handlers of its
\* (symbol, feed) pair with the record of its feed: a BIST price record for
\* live_price_tr and delayed_price_tr, a US price record for live_price_us, an
\* order-book record for depth_tr, carrying the symbol and the price of the frame.
C22_PayloadVariantByFeed ==
    [][ ( /\ scheduled # <<>>
          /\ Head(scheduled).op = "handle"
          /\ scheduled' = Tail(scheduled)
          /\ Head(scheduled).frame \in FeedFrames
          /\ \E i \in SubIds :
                /\ subscriptions[i].feed = Head(scheduled).frame.obj.feed
                /\ Head(scheduled).frame.obj.message[SymbolKey(Head(scheduled).frame.obj.feed)]
                      \in Range(subscriptions[i].symbols) )
        => LET feed == Head(scheduled).frame.obj.feed
               m == Head(scheduled).frame.obj.message
           IN /\ calls' # <<>>
              /\ \A k \in DOMAIN calls' :
                    /\ calls'[k].data.kind = RecordOfFeed(feed)
                    /\ calls'[k].data.symbol = m[SymbolKey(feed)]
                    /\ feed = LIVE_US => calls'[k].data.price = m.p
                    /\ feed \in {DELAYED_BIST, LIVE_BIST} => calls'[k].data.close_price = m.cl ]_vars

\* C23: the callbacks that run on the transport thread (open, message, close) write
\* none of the shared fields: subscription table, last-value cache, reconnect
\* counter, close reason, closed flag; they only hand work to the loop.
C23_TransportCallbacksOnlyHandOff ==
    [][ ( \/ OnOpen
          \/ \E frame \in Frames : OnMessage(frame)
          \/ \E retry \in BOOLEAN : OnClose(retry) )
        => UNCHANGED <<subscriptions, symbol_last_data, reconnect_count, closed_reason,
                       ws_is_closed>> ]_vars

\* C24: a frame received after the transport has reported its n-th open is dispatched
\* only when the replay submitted by that open, and by every open before it, has run:
\* none of them is still waiting in the loop.
C24_ReplayBeforeLaterFrames ==
    [][ ( /\ scheduled # <<>>
          /\ Head(scheduled).op = "handle"
          /\ scheduled' = Tail(scheduled) )
        => \A i \in DOMAIN scheduled :
              scheduled[i].op = "resubscribe" => scheduled[i].opens >= Head(scheduled).opens ]_vars

\* the transport has reopened, the replay of the reopen has written its 'subscribe'
\* message, and a frame received after the reopen is next in the loop
C24_Witness ==
    /\ env.opens = 2
    /\ Connected
    /\ sent # <<>>
    /\ sent[1].type = "subscribe"
    /\ scheduled # <<>>
    /\ Head(scheduled).op = "handle"
    /\ Head(scheduled).opens = 2
    /\ \A i \in DOMAIN scheduled : scheduled[i].op # "resubscribe"

\* the (symbol, feed) pairs that have a registered handler
RegisteredPairs ==
    UNION { {<<s, subscriptions[i].feed>> : s \in Range(subscriptions[i].symbols)} :
               i \in {j \in SubIds : Registered(subscriptions, j)} }

\* the (symbol, feed) pairs that a sequence of outbound messages names
PairsOf(msgs) ==
    UNION { {<<s, msgs[n].feed>> : s \in Range(msgs[n].symbols)} : n \in DOMAIN msgs }

\* C25: the wire message of a subscribe() or of an unsubscribe that is written while
\* the socket is not connected is dropped, raises nothing and leaves the subscription
\* table as the call left it; and the replay that runs while the reopened socket is
\* open sends 'subscribe' messages that name exactly the (symbol, feed) pairs with a
\* registered handler.
C25_DroppedMessagesRecoveredByReplay ==
    [][ /\ ( /\ scheduled # <<>>
             /\ Head(scheduled).op \in {"add", "remove"}
             /\ scheduled' = Tail(scheduled)
             /\ ~(websocket # 0 /\ Connected) )
           => /\ raised' = None
              /\ sent' = <<>>
              /\ UNCHANGED subscriptions
        /\ ( /\ scheduled # <<>>
             /\ Head(scheduled).op = "resubscribe"
             /\ scheduled' = Tail(scheduled)
             /\ connection_thread.open )
           => /\ raised' = None
              /\ \A k \in DOMAIN sent' : sent'[k].type = "subscribe"
              /\ PairsOf(sent') = RegisteredPairs ]_vars

\* C26: when a LivePriceStream of an unsupported (region, type) pair maps a received
\* line to a payload, the failure is not put into the queue that receive() yields
\* from: the step adds no error Result to any queue.
C26_UnsupportedPairIsNotAResult ==
    [][ \A t \in TaskIds :
          (tasks'[t].fail = "unsupported" /\ tasks[t].fail # "unsupported")
          => \A q \in TaskIds :
                \A i \in DOMAIN queues'[q] :
                   queues'[q][i].error # None => i \in DOMAIN queues[q] ]_vars

\* C27: every cached value that subscribe() replays to the handler it registers for a
\* feed was received on that feed: the replayed record is of the kind that the
\* frames of the feed are turned into (a US record for live_price_us, a BIST record
\* for live_price_tr).
C27_ReplayedValueIsOfTheFeed ==
    [][ subscription_counter' = subscription_counter + 1
        => \A k \in DOMAIN calls' :
              calls'[k].data.kind = RecordOfFeed(subscriptions'[subscription_counter].feed)
      ]_vars

\* C28: while a transport thread is alive, the WebSocketApp that self._websocket
\* names, which the client sends on and closes in close(), is the one the thread runs.
C28_ClientSocketIsTheRunningSocket ==
    (connection_thread.alive /\ websocket # 0) => connection_thread.app = websocket

\* C29: when a tick for (symbol, feed) is dispatched, every handler registered for
\* the pair is invoked exactly once with it, also when another handler of the pair
\* raises.
C29_RaisingHandlerSkipsNoHandler ==
    [][ ( /\ scheduled # <<>>
          /\ Head(scheduled).op = "handle"
          /\ scheduled' = Tail(scheduled)
          /\ PriceData(Head(scheduled).frame) # NoData )
        => \A i \in SubIds :
              ( /\ subscriptions[i].feed = Head(scheduled).frame.obj.feed
                /\ PriceData(Head(scheduled).frame).symbol \in Range(subscriptions[i].symbols) )
              => Cardinality({k \in DOMAIN calls' : calls'[k].sub = i}) = 1 ]_vars

\* C30: when a close() returns, at once or after the await of the cancelled task,
\* the closed flag is set and no reader task is live, also when the close()
\* overlapped a subscribe() that was suspended awaiting the old task; and while no
\* subscribe() is in progress, flag and absence of a live task stay until a
\* subscribe() starts.
C30_ClosedStaysClosed ==
    [][ /\ ( \/ \E c \in CallerIds : Close(c) /\ callers'[c].pc = "idle"
             \/ \E c \in CallerIds : CloseResume(c) )
           => (is_closed' /\ LiveTasks' = {})
        /\ ( /\ is_closed
             /\ LiveTasks = {}
             /\ Pending = {}
             /\ ~ \E c \in CallerIds, S \in SymbolLists : Subscribe(c, S) )
           => (is_closed' /\ LiveTasks' = {}) ]_vars

====
